---- MODULE Spec2Model ----
(***************************************************************************)
(* The undo/redo engine of moneyguru (core/model/undo.py): Action, Undoer  *)
(* and the live collections of one document the Undoer is bound to.        *)
(*                                                                         *)
(* An Action object is identified by `id` (Python object identity); two    *)
(* actions may carry the same description.  Entities (accounts,            *)
(* transactions, schedules) are identified by a number; their attribute    *)
(* state is kept per object and survives removal from a live collection.   *)
(* Python sets of schedules are kept as duplicate-free sequences: the      *)
(* sequence is the order in which iterating the set yields its members,    *)
(* which is fixed for an unmodified set object but unrelated to the order  *)
(* in which the document appended the schedules to its list.               *)
(***************************************************************************)
EXTENDS Integers, Sequences, FiniteSets, TLC

\* ---------------------------------------------------------------- bounds
MaxActions == 3
NumAccounts == 1
NumTransactions == 1
NumSchedules == 2
NumValues == 2
MaxTouched == 2
EntriesPerTransaction == 2
MaxCalls == 2
LoopTouched == 1

Accounts == 1..NumAccounts
Transactions == 1..NumTransactions
Schedules == 1..NumSchedules
Values == 0..(NumValues - 1)

\* The spawns (occurrences generated by a schedule, not stored in the
\* transactions collection): one per schedule, numbered after the regular
\* transactions
Spawns == (NumTransactions + 1)..(NumTransactions + NumSchedules)
AllTransactions == Transactions \cup Spawns

\* The entries (splits seen from an account) of the transactions
Entries == 1..(EntriesPerTransaction * (NumTransactions + NumSchedules))

\* Python's None
None == 0

VARIABLES
    actions,            \* Undoer._actions: sequence of Action records
    index,              \* Undoer._index: negative offset from the end
    save_point,         \* Undoer._save_point: id of an Action, or None
    accounts,           \* live accounts collection (set of accounts)
    transactions,       \* live transactions collection (set of transactions)
    scheduled,          \* live scheduled list (ordered, Python list)
    account_state,      \* attribute state of every account object
    transaction_state,  \* attribute state of every transaction object
    schedule_state,     \* attribute state of every schedule object
    undostep,           \* action id -> the copies its UndoStep holds
    cache_cleared,      \* the call invalidated the transactions' cache
    effects,            \* what the call did, in the order it did it
    next_id,            \* identity of the next Action object to be created
    result,             \* the last call made on the Undoer and how it ended
    undone,             \* ids of the actions undone and not redone since
    discarded,          \* ids of the actions dropped by record() after undo
    prior,              \* <<live collections before it>> after an undo()
                        \* and after the redo() that follows it at once
    since_save,         \* <<cursor action, k, j>> after set_save_point(),
                        \* k record() calls, then j undo() calls
    effect,             \* action id -> the live collections before and
                        \* after the operation the action stands for
    save_lost,          \* how the save point's action left the history
                        \* since the last set_save_point(), if it did
    saved_at,           \* <<undo() minus redo() calls completed>> since a
                        \* set_save_point() taken with nothing undone,
                        \* while only undo() and redo() were called
    loop,               \* the caller's loop "while can_undo(): undo()" or
                        \* "while can_redo(): redo()": where it stands,
                        \* the calls it made, and the numbers of applied
                        \* and of undone actions when it started
    ref,                \* the reference history (H, p): H the actions,
                        \* p the number of them that are applied
    pending,            \* the Action a document operation is filling,
                        \* step by step (<<>>: none)
    call,               \* the last call made on that Action, the Action
                        \* before it, and the number of calls so far
    first_state,        \* the state each entity of the Action's changed
                        \* sets had when it was first registered
    caller_ok           \* the caller never put an entity in two of the
                        \* added, changed, deleted sets of a collection

vars == <<actions, index, save_point, accounts, transactions, scheduled,
          account_state, transaction_state, schedule_state, undostep,
          cache_cleared, effects, next_id, result, undone, discarded, prior,
          since_save, effect, save_lost, saved_at, loop, ref, pending, call,
          first_state, caller_ok>>

\* The variables of an Action under construction
building == <<pending, call, first_state, caller_ok>>

\* ------------------------------------------------------- Python helpers
Range(s) == {s[i] : i \in 1..Len(s)}

\* Duplicate-free sequences enumerating exactly the set S
Orders(S) == {s \in [1..Cardinality(S) -> S] : Range(s) = S}

\* seq[i] for a Python index i: the 1-based position, in range or not
PyPos(s, i) == IF i < 0 THEN Len(s) + i + 1 ELSE i + 1
PyInRange(s, i) == PyPos(s, i) \in 1..Len(s)

\* seq[:j] for a Python slice bound j
PySliceTo(s, j) ==
    LET stop == IF j < 0 THEN (IF Len(s) + j < 0 THEN 0 ELSE Len(s) + j)
                ELSE (IF j > Len(s) THEN Len(s) ELSE j)
    IN SubSeq(s, 1, stop)

\* list.remove(x) on a list that holds x: drops the first occurrence
ListRemove(s, x) ==
    LET p == CHOOSE i \in 1..Len(s) : s[i] = x /\ \A j \in 1..(i-1) : s[j] # x
    IN SubSeq(s, 1, p - 1) \o SubSeq(s, p + 1, Len(s))

\* ---------------------------------------------------------------- Action
Action(id, description) ==
    [id |-> id, description |-> description,
     added_accounts |-> {}, changed_accounts |-> {}, deleted_accounts |-> {},
     added_transactions |-> {}, changed_transactions |-> {},
     deleted_transactions |-> {},
     added_schedules |-> <<>>, changed_schedules |-> {},
     deleted_schedules |-> <<>>]

change_accounts(action, accts) ==
    [action EXCEPT !.changed_accounts = @ \cup accts]

change_schedule(action, schedule) ==
    [action EXCEPT !.changed_schedules = @ \cup {schedule}]

\* t.is_spawn
is_spawn(t) == t \in Spawns

\* schedule.contains_spawn(spawn): the spawn is an occurrence of schedule
contains_spawn(schedule, spawn) == spawn = NumTransactions + schedule

\* e.transaction
transaction(e) == ((e - 1) \div EntriesPerTransaction) + 1

\* core.util.extract: <<the members that satisfy predicate, the others>>;
\* the predicate (a lambda) is a function on the members
extract(predicate, iterable) ==
    <<{x \in iterable : predicate[x]}, {x \in iterable : ~predicate[x]}>>

\* change_transactions that registers every transaction given, spawn or
\* not, and no schedule
change_transactions_unsplit(action, txns, schedules) ==
    [action EXCEPT !.changed_transactions = @ \cup txns]

\* change_transactions that does not ask contains_spawn
change_transactions_any_schedule(action, txns, schedules) ==
    LET split == extract([t \in txns |-> is_spawn(t)], txns)
        spawns == split[1]
        normal == split[2]
    IN [action EXCEPT
          !.changed_transactions = @ \cup normal,
          !.changed_schedules = @ \cup
              {schedule \in schedules : spawns # {}}]

\* The nested loops end up calling change_schedule once or more for every
\* schedule of schedules that contains one of the spawns
change_transactions(action, txns, schedules) ==
    LET split == extract([t \in txns |-> is_spawn(t)], txns)
        spawns == split[1]
        normal == split[2]
    IN [action EXCEPT
          !.changed_transactions = @ \cup normal,
          !.changed_schedules = @ \cup
              {schedule \in schedules :
                  \E spawn \in spawns : contains_spawn(schedule, spawn)}]

change_entries(action, entries, schedules) ==
    change_transactions(action, {transaction(e) : e \in entries}, schedules)

\* ---------------------------------------------------------------- Undoer
\* The part of the state Undoer's methods read and write, at the start of
\* a call (no cache invalidation made by it yet)
Undoer ==
    [actions |-> actions, index |-> index, save_point |-> save_point,
     accounts |-> accounts, transactions |-> transactions,
     scheduled |-> scheduled, account_state |-> account_state,
     transaction_state |-> transaction_state,
     schedule_state |-> schedule_state, undostep |-> undostep,
     cache_cleared |-> FALSE, effects |-> <<>>]

\* The live collections of the document, with the state of their members
Live(u) ==
    [accounts |-> u.accounts, transactions |-> u.transactions,
     scheduled |-> u.scheduled,
     account_state |-> [a \in u.accounts |-> u.account_state[a]],
     transaction_state |-> [t \in u.transactions |-> u.transaction_state[t]],
     schedule_state |-> [s \in Range(u.scheduled) |-> u.schedule_state[s]]]

\* The same, the scheduled list taken as the set of its members
LiveSet(u) == [Live(u) EXCEPT !.scheduled = Range(@)]

\* can_redo that also answers yes at the present
can_redo_at_present(u) == u.index <= -1

can_redo(u) == u.index < -1

\* can_undo with a strict comparison
can_undo_strict(u) == -u.index < Len(u.actions)

can_undo(u) == -u.index <= Len(u.actions)

\* _do_adds appending only the first schedule of the set
do_adds_first_only(list, schedules) ==
    IF schedules = <<>> THEN list ELSE Append(list, Head(schedules))

\* list.append for every schedule, in the iteration order of the set
do_adds(list, schedules) == list \o schedules

\* list.remove for every schedule, in the iteration order of the set;
\* list.remove raises ValueError on a schedule the list does not hold and
\* the removals already made stay made
RECURSIVE do_deletes(_, _)
do_deletes(list, schedules) ==
    IF schedules = <<>> THEN [scheduled |-> list, raised |-> FALSE]
    ELSE IF Head(schedules) \notin Range(list)
         THEN [scheduled |-> list, raised |-> TRUE]
         ELSE do_deletes(ListRemove(list, Head(schedules)), Tail(schedules))

\* UndoStep(...): the copies of the changed entities taken at record time
UndoStep(action, u) ==
    [accounts |-> [a \in action.changed_accounts |-> u.account_state[a]],
     transactions |->
        [t \in action.changed_transactions |-> u.transaction_state[t]],
     schedules |-> [s \in action.changed_schedules |-> u.schedule_state[s]]]

\* Every changed entity trades its state with the copy the step holds
UndoStep_swap(u, action) ==
    LET step == u.undostep[action.id]
    IN [u EXCEPT
          !.account_state = [a \in DOMAIN @ |->
              IF a \in DOMAIN step.accounts THEN step.accounts[a] ELSE @[a]],
          !.transaction_state = [t \in DOMAIN @ |->
              IF t \in DOMAIN step.transactions
                  THEN step.transactions[t] ELSE @[t]],
          !.schedule_state = [s \in DOMAIN @ |->
              IF s \in DOMAIN step.schedules THEN step.schedules[s] ELSE @[s]],
          !.undostep[action.id] =
              [accounts |-> [a \in DOMAIN step.accounts |-> u.account_state[a]],
               transactions |->
                  [t \in DOMAIN step.transactions |-> u.transaction_state[t]],
               schedules |->
                  [s \in DOMAIN step.schedules |-> u.schedule_state[s]]]]

\* UndoStep.undo(accounts, transactions)
UndoStep_undo(u, action) ==
    [UndoStep_swap(u, action) EXCEPT
        !.accounts = (@ \ action.added_accounts) \cup action.deleted_accounts,
        !.transactions =
            (@ \ action.added_transactions) \cup action.deleted_transactions]

\* UndoStep.redo(accounts, transactions)
UndoStep_redo(u, action) ==
    [UndoStep_swap(u, action) EXCEPT
        !.accounts = (@ \ action.deleted_accounts) \cup action.added_accounts,
        !.transactions =
            (@ \ action.deleted_transactions) \cup action.added_transactions]

\* clear that forgets the save point too
clear_with_save_point(u) ==
    [u EXCEPT !.actions = <<>>, !.undostep = <<>>, !.save_point = None]

clear(u) == [u EXCEPT !.actions = <<>>, !.undostep = <<>>]

\* The call has got to u by doing what the statement named says
Did(u, statement) == [u EXCEPT !.effects = Append(@, statement)]

\* A call's outcome: the state it leaves, how it ended, what it returned
Return(u, value) == [u |-> u, status |-> "ok", value |-> value]
Raise(u, exception) == [u |-> u, status |-> exception, value |-> None]

\* undo_description reading the action after the cursor
undo_description_next(u) ==
    IF can_undo(u)
    THEN IF PyInRange(u.actions, u.index + 1)
         THEN Return(u, u.actions[PyPos(u.actions, u.index + 1)].description)
         ELSE Raise(u, "IndexError")
    ELSE Return(u, None)

undo_description(u) ==
    IF can_undo(u)
    THEN IF PyInRange(u.actions, u.index)
         THEN Return(u, u.actions[PyPos(u.actions, u.index)].description)
         ELSE Raise(u, "IndexError")
    ELSE Return(u, None)

redo_description(u) ==
    IF can_redo(u)
    THEN IF PyInRange(u.actions, u.index + 1)
         THEN Return(u, u.actions[PyPos(u.actions, u.index + 1)].description)
         ELSE Raise(u, "IndexError")
    ELSE Return(u, None)

\* set_save_point that remembers the action the cursor is on
set_save_point_at_cursor(u) ==
    [u EXCEPT !.save_point =
        IF can_undo(u) /\ PyInRange(u.actions, u.index)
        THEN u.actions[PyPos(u.actions, u.index)].id ELSE None]

set_save_point(u) ==
    [u EXCEPT !.save_point =
        IF Len(u.actions) > 0 THEN u.actions[Len(u.actions)].id ELSE None]

\* record slicing one action too many: self._actions[:self._index]
record_off_by_one(u, action) ==
    LET kept == IF u.index < -1 THEN PySliceTo(u.actions, u.index)
                ELSE u.actions
        ids == {kept[i].id : i \in 1..Len(kept)}
    IN [u EXCEPT
          !.actions = Append(kept, action),
          !.index = -1,
          !.undostep = [i \in ids \cup {action.id} |->
              IF i = action.id THEN UndoStep(action, u) ELSE u.undostep[i]]]

\* record without the truncation of the undone actions
record_keeps_redo(u, action) ==
    [u EXCEPT
        !.actions = Append(@, action),
        !.index = -1,
        !.undostep = [i \in DOMAIN @ \cup {action.id} |->
            IF i = action.id THEN UndoStep(action, u) ELSE u.undostep[i]]]

\* record without the reset of the cursor
record_keeps_cursor(u, action) ==
    LET kept == IF u.index < -1 THEN PySliceTo(u.actions, u.index + 1)
                ELSE u.actions
        ids == {kept[i].id : i \in 1..Len(kept)}
    IN [u EXCEPT
          !.actions = Append(kept, action),
          !.undostep = [i \in ids \cup {action.id} |->
              IF i = action.id THEN UndoStep(action, u) ELSE u.undostep[i]]]

\* record forgetting a save point whose action it discards
record_drops_save_point(u, action) ==
    LET kept == IF u.index < -1 THEN PySliceTo(u.actions, u.index + 1)
                ELSE u.actions
        ids == {kept[i].id : i \in 1..Len(kept)}
    IN [u EXCEPT
          !.actions = Append(kept, action),
          !.index = -1,
          !.save_point = IF @ \in ids THEN @ ELSE None,
          !.undostep = [i \in ids \cup {action.id} |->
              IF i = action.id THEN UndoStep(action, u) ELSE u.undostep[i]]]

record(u, action) ==
    LET kept == IF u.index < -1 THEN PySliceTo(u.actions, u.index + 1)
                ELSE u.actions
        ids == {kept[i].id : i \in 1..Len(kept)}
    IN [u EXCEPT
          !.actions = Append(kept, action),
          !.index = -1,
          !.undostep = [i \in ids \cup {action.id} |->
              IF i = action.id THEN UndoStep(action, u) ELSE u.undostep[i]]]

\* undo that always takes the last action of the history
undo_last(u) ==
    IF ~can_undo(u) THEN Raise(u, "AssertionError")
    ELSE
      LET action == u.actions[Len(u.actions)]
          u1 == UndoStep_undo(u, action)
          u2 == [u1 EXCEPT
                   !.scheduled = do_adds(@, action.deleted_schedules)]
          d == do_deletes(u2.scheduled, action.added_schedules)
          u3 == [u2 EXCEPT !.scheduled = d.scheduled]
      IN IF d.raised THEN [Raise(u3, "ValueError") EXCEPT !.value = action.id]
         ELSE Return([u3 EXCEPT !.cache_cleared = TRUE, !.index = @ - 1],
                     action.id)

\* undo that appends the added schedules and removes the deleted ones
undo_mirrored(u) ==
    IF ~can_undo(u) THEN Raise(u, "AssertionError")
    ELSE IF ~PyInRange(u.actions, u.index) THEN Raise(u, "IndexError")
    ELSE
      LET action == u.actions[PyPos(u.actions, u.index)]
          u1 == UndoStep_undo(u, action)
          u2 == [u1 EXCEPT
                   !.scheduled = do_adds(@, action.added_schedules)]
          d == do_deletes(u2.scheduled, action.deleted_schedules)
          u3 == [u2 EXCEPT !.scheduled = d.scheduled]
      IN IF d.raised THEN [Raise(u3, "ValueError") EXCEPT !.value = action.id]
         ELSE Return([u3 EXCEPT !.cache_cleared = TRUE, !.index = @ - 1],
                     action.id)

\* undo that takes the action off the history
undo_popping(u) ==
    IF ~can_undo(u) THEN Raise(u, "AssertionError")
    ELSE IF ~PyInRange(u.actions, u.index) THEN Raise(u, "IndexError")
    ELSE
      LET action == u.actions[PyPos(u.actions, u.index)]
          u1 == Did(UndoStep_undo(u, action), "undostep.undo")
          u2 == Did([u1 EXCEPT
                       !.scheduled = do_adds(@, action.deleted_schedules)],
                    "_do_adds")
          d == do_deletes(u2.scheduled, action.added_schedules)
          u3 == Did([u2 EXCEPT !.scheduled = d.scheduled], "_do_deletes")
      IN IF d.raised THEN [Raise(u3, "ValueError") EXCEPT !.value = action.id]
         ELSE LET u4 == Did([u3 EXCEPT !.cache_cleared = TRUE],
                            "clear_cache")
              IN Return(Did([u4 EXCEPT
                               !.actions = SubSeq(@, 1,
                                   PyPos(u.actions, u.index) - 1)],
                            "_actions"),
                        action.id)

\* undo that invalidates the cache before it touches the scheduled list
undo_cache_first(u) ==
    IF ~can_undo(u) THEN Raise(u, "AssertionError")
    ELSE IF ~PyInRange(u.actions, u.index) THEN Raise(u, "IndexError")
    ELSE
      LET action == u.actions[PyPos(u.actions, u.index)]
          u1 == Did(UndoStep_undo(u, action), "undostep.undo")
          u2 == Did([u1 EXCEPT !.cache_cleared = TRUE], "clear_cache")
          u3 == Did([u2 EXCEPT
                       !.scheduled = do_adds(@, action.deleted_schedules)],
                    "_do_adds")
          d == do_deletes(u3.scheduled, action.added_schedules)
          u4 == Did([u3 EXCEPT !.scheduled = d.scheduled], "_do_deletes")
      IN IF d.raised THEN [Raise(u4, "ValueError") EXCEPT !.value = action.id]
         ELSE Return(Did([u4 EXCEPT !.index = @ - 1], "_index"), action.id)

\* undo that leaves the cursor where it is
undo_keeps_cursor(u) ==
    IF ~can_undo(u) THEN Raise(u, "AssertionError")
    ELSE IF ~PyInRange(u.actions, u.index) THEN Raise(u, "IndexError")
    ELSE
      LET action == u.actions[PyPos(u.actions, u.index)]
          u1 == Did(UndoStep_undo(u, action), "undostep.undo")
          u2 == Did([u1 EXCEPT
                       !.scheduled = do_adds(@, action.deleted_schedules)],
                    "_do_adds")
          d == do_deletes(u2.scheduled, action.added_schedules)
          u3 == Did([u2 EXCEPT !.scheduled = d.scheduled], "_do_deletes")
      IN IF d.raised THEN [Raise(u3, "ValueError") EXCEPT !.value = action.id]
         ELSE LET u4 == Did([u3 EXCEPT !.cache_cleared = TRUE],
                            "clear_cache")
              IN Return(Did([u4 EXCEPT !.index = @], "_index"),
                        action.id)

undo(u) ==
    IF ~can_undo(u) THEN Raise(u, "AssertionError")
    ELSE IF ~PyInRange(u.actions, u.index) THEN Raise(u, "IndexError")
    ELSE
      LET action == u.actions[PyPos(u.actions, u.index)]
          u1 == Did(UndoStep_undo(u, action), "undostep.undo")
          u2 == Did([u1 EXCEPT
                       !.scheduled = do_adds(@, action.deleted_schedules)],
                    "_do_adds")
          d == do_deletes(u2.scheduled, action.added_schedules)
          u3 == Did([u2 EXCEPT !.scheduled = d.scheduled], "_do_deletes")
      IN IF d.raised THEN [Raise(u3, "ValueError") EXCEPT !.value = action.id]
         ELSE LET u4 == Did([u3 EXCEPT !.cache_cleared = TRUE],
                            "clear_cache")
              IN Return(Did([u4 EXCEPT !.index = @ - 1], "_index"),
                        action.id)

\* redo without its assertion
redo_unasserted(u) ==
    IF ~PyInRange(u.actions, u.index + 1) THEN Raise(u, "IndexError")
    ELSE
      LET action == u.actions[PyPos(u.actions, u.index + 1)]
          u1 == UndoStep_redo(u, action)
          u2 == [u1 EXCEPT
                   !.scheduled = do_adds(@, action.added_schedules)]
          d == do_deletes(u2.scheduled, action.deleted_schedules)
          u3 == [u2 EXCEPT !.scheduled = d.scheduled]
      IN IF d.raised THEN [Raise(u3, "ValueError") EXCEPT !.value = action.id]
         ELSE Return([u3 EXCEPT !.cache_cleared = TRUE, !.index = @ + 1],
                     action.id)

\* redo that asks the UndoStep to undo
redo_reverses(u) ==
    IF ~can_redo(u) THEN Raise(u, "AssertionError")
    ELSE IF ~PyInRange(u.actions, u.index + 1) THEN Raise(u, "IndexError")
    ELSE
      LET action == u.actions[PyPos(u.actions, u.index + 1)]
          u1 == UndoStep_undo(u, action)
          u2 == [u1 EXCEPT
                   !.scheduled = do_adds(@, action.added_schedules)]
          d == do_deletes(u2.scheduled, action.deleted_schedules)
          u3 == [u2 EXCEPT !.scheduled = d.scheduled]
      IN IF d.raised THEN [Raise(u3, "ValueError") EXCEPT !.value = action.id]
         ELSE Return([u3 EXCEPT !.cache_cleared = TRUE, !.index = @ + 1],
                     action.id)

\* redo that puts the cursor back at the present
redo_to_present(u) ==
    IF ~can_redo(u) THEN Raise(u, "AssertionError")
    ELSE IF ~PyInRange(u.actions, u.index + 1) THEN Raise(u, "IndexError")
    ELSE
      LET action == u.actions[PyPos(u.actions, u.index + 1)]
          u1 == Did(UndoStep_redo(u, action), "undostep.redo")
          u2 == Did([u1 EXCEPT
                       !.scheduled = do_adds(@, action.added_schedules)],
                    "_do_adds")
          d == do_deletes(u2.scheduled, action.deleted_schedules)
          u3 == Did([u2 EXCEPT !.scheduled = d.scheduled], "_do_deletes")
      IN IF d.raised THEN [Raise(u3, "ValueError") EXCEPT !.value = action.id]
         ELSE LET u4 == Did([u3 EXCEPT !.cache_cleared = TRUE],
                            "clear_cache")
              IN Return(Did([u4 EXCEPT !.index = -1], "_index"),
                        action.id)

redo(u) ==
    IF ~can_redo(u) THEN Raise(u, "AssertionError")
    ELSE IF ~PyInRange(u.actions, u.index + 1) THEN Raise(u, "IndexError")
    ELSE
      LET action == u.actions[PyPos(u.actions, u.index + 1)]
          u1 == Did(UndoStep_redo(u, action), "undostep.redo")
          u2 == Did([u1 EXCEPT
                       !.scheduled = do_adds(@, action.added_schedules)],
                    "_do_adds")
          d == do_deletes(u2.scheduled, action.deleted_schedules)
          u3 == Did([u2 EXCEPT !.scheduled = d.scheduled], "_do_deletes")
      IN IF d.raised THEN [Raise(u3, "ValueError") EXCEPT !.value = action.id]
         ELSE LET u4 == Did([u3 EXCEPT !.cache_cleared = TRUE],
                            "clear_cache")
              IN Return(Did([u4 EXCEPT !.index = @ + 1], "_index"),
                        action.id)

\* modified comparing the save point with the last action of the history
modified_at_tip(u) ==
    IF Len(u.actions) > 0
    THEN u.save_point # u.actions[Len(u.actions)].id
    ELSE u.save_point # None

\* modified that is false whenever nothing can be undone
modified_unless_all_undone(u) ==
    IF can_undo(u)
    THEN u.save_point # u.actions[PyPos(u.actions, u.index)].id
    ELSE FALSE

modified(u) ==
    IF can_undo(u)
    THEN u.save_point # u.actions[PyPos(u.actions, u.index)].id
    ELSE u.save_point # None

\* ------------------------------------------------------------ the system
\* The action the cursor stands on (the one undo() would reverse), or None
CursorId(u) ==
    IF PyInRange(u.actions, u.index)
    THEN u.actions[PyPos(u.actions, u.index)].id ELSE None

NoCall == [op |-> "init", status |-> "ok", value |-> None]

\* No call made yet on the Action under construction
NoActionCall == [op |-> "init", args |-> <<>>, before |-> <<>>, n |-> 0]

\* No loop of the caller is running
NoLoop == [pc |-> "idle", calls |-> 0, applied |-> 0, undone |-> 0]

Init ==
    /\ actions = <<>>
    /\ index = -1
    /\ save_point = None
    /\ accounts = {}
    /\ transactions = {}
    /\ scheduled = <<>>
    /\ account_state = [a \in Accounts |-> 0]
    /\ transaction_state = [t \in Transactions |-> 0]
    /\ schedule_state = [s \in Schedules |-> 0]
    /\ undostep = <<>>
    /\ cache_cleared = FALSE
    /\ effects = <<>>
    /\ next_id = 1
    /\ result = NoCall
    /\ undone = {}
    /\ discarded = {}
    /\ prior = <<>>
    /\ since_save = <<>>
    /\ effect = <<>>
    /\ save_lost = "no"
    /\ saved_at = <<>>
    /\ loop = NoLoop
    /\ ref = [H |-> <<>>, p |-> 0]
    /\ pending = <<>>
    /\ call = NoActionCall
    /\ first_state = [accounts |-> <<>>, schedules |-> <<>>]
    /\ caller_ok = TRUE

\* The Undoer's fields and the collections it is bound to become those of u
Becomes(u) ==
    /\ actions' = u.actions
    /\ index' = u.index
    /\ save_point' = u.save_point
    /\ accounts' = u.accounts
    /\ transactions' = u.transactions
    /\ scheduled' = u.scheduled
    /\ account_state' = u.account_state
    /\ transaction_state' = u.transaction_state
    /\ schedule_state' = u.schedule_state
    /\ undostep' = u.undostep
    /\ cache_cleared' = u.cache_cleared
    /\ effects' = u.effects

\* The states a changed entity can be put in
Edits(S, state) == {f \in [S -> Values] : \A e \in S : f[e] # state[e]}

Edited(state, f) ==
    [e \in DOMAIN state |-> IF e \in DOMAIN f THEN f[e] ELSE state[e]]

RECURSIVE RemoveAll(_, _)
RemoveAll(list, schedules) ==
    IF schedules = <<>> THEN list
    ELSE RemoveAll(ListRemove(list, Head(schedules)), Tail(schedules))

\* The description the document gives an operation ("Add ...", "Remove
\* ...", "Change ..."): distinct actions may carry the same description
AddDescription == 1
RemoveDescription == 2
ChangeDescription == 3

\* One logical operation of the document: it builds an Action (added and
\* deleted sets filled directly, changed sets through the change_* methods),
\* records it, then mutates its collections accordingly.  An entity is in at
\* most one of the added, changed and deleted sets; added entities are not
\* yet in their collection, changed and deleted ones are.  An operation
\* touches between one and MaxTouched entities.
DocumentOperation ==
    /\ next_id <= MaxActions
    /\ \E addA \in SUBSET (Accounts \ accounts), delA \in SUBSET accounts,
          addT \in SUBSET (Transactions \ transactions),
          delT \in SUBSET transactions,
          addS \in SUBSET (Schedules \ Range(scheduled)),
          delS \in SUBSET Range(scheduled) :
       \E chgA \in SUBSET (accounts \ delA),
          chgT \in SUBSET (transactions \ delT),
          chgS \in SUBSET (Range(scheduled) \ delS) :
       /\ Cardinality(addA) + Cardinality(delA) + Cardinality(chgA)
            + Cardinality(addT) + Cardinality(delT) + Cardinality(chgT)
            + Cardinality(addS) + Cardinality(delS) + Cardinality(chgS)
            \in 1..MaxTouched
       /\ Cardinality(chgS) <= 1
       /\ \E editA \in Edits(chgA, account_state),
             editT \in Edits(chgT, transaction_state),
             editS \in Edits(chgS, schedule_state),
             added \in Orders(addS), appended \in Orders(addS),
             deleted \in Orders(delS) :
          LET description ==
                  IF addA \cup addT \cup addS # {} THEN AddDescription
                  ELSE IF delA \cup delT \cup delS # {} THEN RemoveDescription
                  ELSE ChangeDescription
              a0 == [Action(next_id, description) EXCEPT
                        !.added_accounts = addA, !.deleted_accounts = delA,
                        !.added_transactions = addT,
                        !.deleted_transactions = delT,
                        !.added_schedules = added,
                        !.deleted_schedules = deleted]
              a1 == change_accounts(a0, chgA)
              a2 == change_transactions(a1, chgT, Range(scheduled))
              action == IF chgS = {} THEN a2
                        ELSE change_schedule(a2, CHOOSE x \in chgS : TRUE)
              u == record(Undoer, action)
          IN /\ Becomes([u EXCEPT
                   !.accounts = (@ \cup addA) \ delA,
                   !.transactions = (@ \cup addT) \ delT,
                   !.scheduled = RemoveAll(@, deleted) \o appended,
                   !.account_state = Edited(@, editA),
                   !.transaction_state = Edited(@, editT),
                   !.schedule_state = Edited(@, editS)])
             /\ result' = [op |-> "record", status |-> "ok",
                           value |-> action.id]
             /\ effect' = [i \in {u.actions[k].id : k \in 1..Len(u.actions)}
                             |->
                   IF i = action.id
                   THEN [pre |-> LiveSet(Undoer), post |-> LiveSet(Undoer')]
                   ELSE effect[i]]
             /\ save_lost' =
                   IF save_lost = "no" /\ save_point # None
                      /\ save_point \in
                            {actions[k].id : k \in 1..Len(actions)}
                      /\ save_point \notin
                            {u.actions[k].id : k \in 1..Len(u.actions)}
                   THEN "record" ELSE save_lost
             /\ ref' = [H |-> Append(SubSeq(ref.H, 1, ref.p),
                                     [id |-> action.id,
                                      description |-> description]),
                        p |-> ref.p + 1]
    /\ next_id' = next_id + 1
    /\ UNCHANGED building
    /\ saved_at' = <<>>
    /\ UNCHANGED loop
    /\ discarded' = discarded \cup undone
    /\ undone' = {}
    /\ prior' = <<>>
    /\ since_save' = IF since_save # <<>> /\ since_save[3] = 0
                      THEN <<since_save[1], since_save[2] + 1, 0>> ELSE <<>>

Undo ==
    \E r \in {undo(Undoer)} :
       /\ Becomes(r.u)
       /\ result' = [op |-> "undo", status |-> r.status, value |-> r.value]
       /\ undone' = IF r.status = "ok" THEN undone \cup {r.value} ELSE undone
       /\ prior' = IF r.status = "ok" THEN <<Live(Undoer)>> ELSE <<>>
       /\ since_save' = IF r.status = "ok" /\ since_save # <<>>
                            /\ since_save[3] < since_save[2]
                         THEN <<since_save[1], since_save[2], since_save[3] + 1>>
                         ELSE <<>>
       /\ ref' = IF r.status = "ok" THEN [ref EXCEPT !.p = @ - 1] ELSE ref
       /\ saved_at' = IF r.status = "ok" /\ saved_at # <<>>
                       THEN <<saved_at[1] + 1>> ELSE saved_at
       /\ loop' = IF loop.pc = "undoing"
                   THEN [loop EXCEPT !.calls = @ + 1,
                                     !.pc = IF r.status = "ok" THEN @
                                            ELSE "raised"]
                   ELSE loop
       /\ UNCHANGED <<next_id, discarded, effect, save_lost, building>>

Redo ==
    \E r \in {redo(Undoer)} :
       /\ Becomes(r.u)
       /\ result' = [op |-> "redo", status |-> r.status, value |-> r.value]
       /\ undone' = IF r.status = "ok" THEN undone \ {r.value} ELSE undone
       /\ prior' = IF r.status = "ok" /\ result.op = "undo"
                       /\ result.status = "ok"
                    THEN prior ELSE <<>>
       /\ since_save' = <<>>
       /\ ref' = IF r.status = "ok" THEN [ref EXCEPT !.p = @ + 1] ELSE ref
       /\ saved_at' = IF r.status = "ok" /\ saved_at # <<>>
                       THEN <<saved_at[1] - 1>> ELSE saved_at
       /\ loop' = IF loop.pc = "redoing"
                   THEN [loop EXCEPT !.calls = @ + 1,
                                     !.pc = IF r.status = "ok" THEN @
                                            ELSE "raised"]
                   ELSE loop
       /\ UNCHANGED <<next_id, discarded, effect, save_lost, building>>

Clear ==
    /\ Becomes(clear(Undoer))
    /\ result' = [op |-> "clear", status |-> "ok", value |-> None]
    /\ undone' = {}
    /\ prior' = <<>>
    /\ since_save' = <<>>
    /\ effect' = <<>>
    /\ save_lost' = IF save_point # None THEN "clear" ELSE save_lost
    /\ saved_at' = <<>>
    /\ UNCHANGED loop
    /\ ref' = [H |-> <<>>, p |-> 0]
    /\ UNCHANGED <<next_id, discarded, building>>

SetSavePoint ==
    /\ Becomes(set_save_point(Undoer))
    /\ result' = [op |-> "set_save_point", status |-> "ok", value |-> None]
    /\ prior' = <<>>
    /\ since_save' = <<CursorId(Undoer), 0, 0>>
    /\ save_lost' = "no"
    /\ saved_at' = IF undone = {} THEN <<0>> ELSE <<>>
    /\ UNCHANGED loop
    /\ UNCHANGED <<next_id, undone, discarded, effect, ref, building>>

Next ==
    \/ DocumentOperation
    \/ Undo
    \/ Redo
    \/ Clear
    \/ SetSavePoint

Spec == Init /\ [][Next]_vars

\* The same document whose history is never cleared
NextNoClear ==
    \/ DocumentOperation
    \/ Undo
    \/ Redo
    \/ SetSavePoint

SpecNoClear == Init /\ [][NextNoClear]_vars

\* ------------------------------------------- the caller's undo/redo loops
\* Everything but the loop of the caller
beside_loop ==
    <<actions, index, save_point, accounts, transactions, scheduled,
      account_state, transaction_state, schedule_state, undostep,
      cache_cleared, effects, next_id, result, undone, discarded, prior,
      since_save, effect, save_lost, saved_at, ref, pending, call,
      first_state, caller_ok>>

Idle == loop.pc = "idle"

\* The number of entities an Action names in its nine sets
Touched(a) ==
    Cardinality(a.added_accounts) + Cardinality(a.changed_accounts)
    + Cardinality(a.deleted_accounts) + Cardinality(a.added_transactions)
    + Cardinality(a.changed_transactions)
    + Cardinality(a.deleted_transactions) + Len(a.added_schedules)
    + Cardinality(a.changed_schedules) + Len(a.deleted_schedules)

\* A document operation between the loops: one that touches at most
\* LoopTouched entities
LoopOperation ==
    /\ Idle
    /\ DocumentOperation
    /\ Touched(actions'[Len(actions')]) <= LoopTouched

\* The caller enters "while undoer.can_undo(): undoer.undo()"
UndoAll ==
    /\ Idle
    /\ loop' = [pc |-> "undoing", calls |-> 0,
                applied |-> Len(actions) - Cardinality(undone),
                undone |-> Cardinality(undone)]
    /\ UNCHANGED beside_loop

\* can_undo() answered yes: one more undo(). A loop that has made more
\* calls than the history has actions is not followed any further.
UndoAllCall ==
    /\ loop.pc = "undoing"
    /\ can_undo(Undoer)
    /\ loop.calls <= Len(actions)
    /\ Undo

\* can_undo() answered no: the loop is left
UndoAllExit ==
    /\ loop.pc = "undoing"
    /\ ~can_undo(Undoer)
    /\ loop' = [loop EXCEPT !.pc = "undone"]
    /\ UNCHANGED beside_loop

\* The caller enters "while undoer.can_redo(): undoer.redo()"
RedoAll ==
    /\ Idle
    /\ loop' = [pc |-> "redoing", calls |-> 0,
                applied |-> Len(actions) - Cardinality(undone),
                undone |-> Cardinality(undone)]
    /\ UNCHANGED beside_loop

RedoAllCall ==
    /\ loop.pc = "redoing"
    /\ can_redo(Undoer)
    /\ loop.calls <= Len(actions)
    /\ Redo

RedoAllExit ==
    /\ loop.pc = "redoing"
    /\ ~can_redo(Undoer)
    /\ loop' = [loop EXCEPT !.pc = "redone"]
    /\ UNCHANGED beside_loop

\* The caller goes on after the loop
LoopReturn ==
    /\ loop.pc \in {"undone", "redone", "raised"}
    /\ loop' = NoLoop
    /\ UNCHANGED beside_loop

NextLoop ==
    \/ LoopOperation
    \/ Idle /\ Undo
    \/ Idle /\ Redo
    \/ Idle /\ SetSavePoint
    \/ UndoAll
    \/ UndoAllCall
    \/ UndoAllExit
    \/ RedoAll
    \/ RedoAllCall
    \/ RedoAllExit
    \/ LoopReturn

\* A loop of the caller is sequential code: once entered it keeps running
LoopSpec ==
    /\ Init
    /\ [][NextLoop]_vars
    /\ WF_vars(UndoAllCall \/ UndoAllExit)
    /\ WF_vars(RedoAllCall \/ RedoAllExit)

\* ------------------------------------- an Action filled call by call
\* A document that holds every account and transaction, and every schedule
\* but the last one, creates an Action to fill it one call at a time,
\* editing its entities on the way.  Nothing of what the caller must ensure
\* (spec 4.1) is taken for granted here.
InitAction ==
    /\ actions = <<>>
    /\ index = -1
    /\ save_point = None
    /\ accounts = Accounts
    /\ transactions = Transactions
    /\ scheduled = [i \in 1..(NumSchedules - 1) |-> i]
    /\ account_state = [a \in Accounts |-> 0]
    /\ transaction_state = [t \in Transactions |-> 0]
    /\ schedule_state = [s \in Schedules |-> 0]
    /\ undostep = <<>>
    /\ cache_cleared = FALSE
    /\ effects = <<>>
    /\ next_id = 2
    /\ result = NoCall
    /\ undone = {}
    /\ discarded = {}
    /\ prior = <<>>
    /\ since_save = <<>>
    /\ effect = <<>>
    /\ save_lost = "no"
    /\ saved_at = <<>>
    /\ loop = NoLoop
    /\ ref = [H |-> <<>>, p |-> 0]
    /\ pending = Action(1, ChangeDescription)
    /\ call = NoActionCall
    /\ first_state = [accounts |-> <<>>, schedules |-> <<>>]
    /\ caller_ok = TRUE

\* The Action is not recorded yet and may be given one more call
Filling == actions = <<>> /\ call.n < MaxCalls

Called(op, args) ==
    [op |-> op, args |-> args, before |-> pending, n |-> call.n + 1]

\* The state at first registration of the entities of a changed set
FirstState(known, changed, state) ==
    [e \in changed |-> IF e \in DOMAIN known THEN known[e] ELSE state[e]]

\* What is left alone while the Action is filled
UndoerUnchanged ==
    UNCHANGED <<actions, index, save_point, accounts, transactions,
                scheduled, account_state, transaction_state, schedule_state,
                undostep, cache_cleared, effects, next_id, result, undone,
                discarded,
                prior, since_save, effect, save_lost, saved_at, loop, ref>>

\* After the call, pending is the Action a
Filled(a, op, args) ==
    /\ pending' = a
    /\ call' = Called(op, args)
    /\ first_state' =
          [accounts |-> FirstState(first_state.accounts, a.changed_accounts,
                                   account_state),
           schedules |-> FirstState(first_state.schedules,
                                    a.changed_schedules, schedule_state)]
    /\ UndoerUnchanged

\* set.add(s) on the schedules of a sequence kept as a set: a member is
\* left where it is, a new one may be yielded by iteration at any place
Inserted(schedules, s) ==
    IF s \in Range(schedules) THEN {schedules}
    ELSE {SubSeq(schedules, 1, k) \o <<s>> \o SubSeq(schedules, k + 1,
                                                      Len(schedules)) :
             k \in 0..Len(schedules)}

\* action.added_accounts.add(a) or action.deleted_accounts.add(a)
AddAccount ==
    /\ Filling
    /\ \E a \in Accounts :
        /\ \/ Filled([pending EXCEPT !.added_accounts = @ \cup {a}],
                     "added_accounts", <<a>>)
              /\ caller_ok' = (caller_ok /\ a \notin
                     pending.changed_accounts \cup pending.deleted_accounts)
           \/ Filled([pending EXCEPT !.deleted_accounts = @ \cup {a}],
                     "deleted_accounts", <<a>>)
              /\ caller_ok' = (caller_ok /\ a \notin
                     pending.changed_accounts \cup pending.added_accounts)

\* action.added_transactions.add(t) or action.deleted_transactions.add(t)
AddTransaction ==
    /\ Filling
    /\ \E t \in Transactions :
        /\ \/ Filled([pending EXCEPT !.added_transactions = @ \cup {t}],
                     "added_transactions", <<t>>)
              /\ caller_ok' = (caller_ok /\ t \notin
                     pending.changed_transactions
                         \cup pending.deleted_transactions)
           \/ Filled([pending EXCEPT !.deleted_transactions = @ \cup {t}],
                     "deleted_transactions", <<t>>)
              /\ caller_ok' = (caller_ok /\ t \notin
                     pending.changed_transactions
                         \cup pending.added_transactions)

\* action.added_schedules.add(s) or action.deleted_schedules.add(s)
AddSchedule ==
    /\ Filling
    /\ \E s \in Schedules :
        /\ \/ /\ \E added \in Inserted(pending.added_schedules, s) :
                    Filled([pending EXCEPT !.added_schedules = added],
                           "added_schedules", <<s>>)
              /\ caller_ok' = (caller_ok /\ s \notin
                     pending.changed_schedules
                         \cup Range(pending.deleted_schedules))
           \/ /\ \E deleted \in Inserted(pending.deleted_schedules, s) :
                    Filled([pending EXCEPT !.deleted_schedules = deleted],
                           "deleted_schedules", <<s>>)
              /\ caller_ok' = (caller_ok /\ s \notin
                     pending.changed_schedules
                         \cup Range(pending.added_schedules))

ChangeAccounts ==
    /\ Filling
    /\ \E accts \in SUBSET Accounts :
        /\ Filled(change_accounts(pending, accts), "change_accounts",
                  <<accts>>)
        /\ caller_ok' = (caller_ok /\ accts \cap
               (pending.added_accounts \cup pending.deleted_accounts) = {})

ChangeSchedule ==
    /\ Filling
    /\ \E s \in Schedules :
        /\ Filled(change_schedule(pending, s), "change_schedule", <<s>>)
        /\ caller_ok' = (caller_ok /\ s \notin
               Range(pending.added_schedules)
                   \cup Range(pending.deleted_schedules))

\* The caller keeps the sets apart when no regular transaction it passes,
\* and no schedule it passes along with one of its spawns, is in an added
\* or deleted set
ApartFrom(a, txns, schedules) ==
    /\ \A t \in txns \ Spawns :
          t \notin a.added_transactions \cup a.deleted_transactions
    /\ \A s \in schedules :
          (\E t \in txns \cap Spawns : contains_spawn(s, t)) =>
              s \notin Range(a.added_schedules)
                  \cup Range(a.deleted_schedules)

ChangeTransactions ==
    /\ Filling
    /\ \E txns \in SUBSET AllTransactions, schedules \in SUBSET Schedules :
        /\ Cardinality(txns) \in 0..MaxTouched
        /\ Filled(change_transactions(pending, txns, schedules),
                  "change_transactions", <<txns, schedules>>)
        /\ caller_ok' = (caller_ok /\ ApartFrom(pending, txns, schedules))

ChangeEntries ==
    /\ Filling
    /\ \E entries \in SUBSET Entries, schedules \in SUBSET Schedules :
        /\ Cardinality(entries) \in 0..MaxTouched
        /\ Filled(change_entries(pending, entries, schedules),
                  "change_entries", <<entries, schedules>>)
        /\ caller_ok' = (caller_ok /\ ApartFrom(pending,
               {transaction(e) : e \in entries}, schedules))

\* The document edits in place an entity it has registered as changed,
\* while it fills the Action or right after it recorded it
Mutate ==
    /\ actions = <<>> \/ result.op = "record"
    /\ \/ \E f \in UNION {Edits({a}, account_state) :
                              a \in pending.changed_accounts} :
            /\ account_state' = Edited(account_state, f)
            /\ UNCHANGED <<transaction_state, schedule_state>>
       \/ \E f \in UNION {Edits({t}, transaction_state) :
                              t \in pending.changed_transactions} :
            /\ transaction_state' = Edited(transaction_state, f)
            /\ UNCHANGED <<account_state, schedule_state>>
       \/ \E f \in UNION {Edits({s}, schedule_state) :
                              s \in pending.changed_schedules} :
            /\ schedule_state' = Edited(schedule_state, f)
            /\ UNCHANGED <<account_state, transaction_state>>
    /\ UNCHANGED <<actions, index, save_point, accounts, transactions,
                   scheduled, undostep, cache_cleared, effects, next_id,
                   result,
                   undone, discarded, prior, since_save, effect, save_lost,
                   saved_at, loop, ref, building>>

\* undoer.record(action) with the Action as filled so far
RecordPending ==
    /\ actions = <<>>
    /\ Becomes(record(Undoer, pending))
    /\ result' = [op |-> "record", status |-> "ok", value |-> pending.id]
    /\ ref' = [H |-> Append(SubSeq(ref.H, 1, ref.p),
                            [id |-> pending.id,
                             description |-> pending.description]),
               p |-> ref.p + 1]
    /\ UNCHANGED <<next_id, undone, discarded, prior, since_save, effect,
                   save_lost, saved_at, loop, building>>

\* undoer.undo() of the Action just recorded and edited
UndoRecorded == result.op = "record" /\ Undo

NextAction ==
    \/ AddAccount
    \/ AddTransaction
    \/ AddSchedule
    \/ ChangeAccounts
    \/ ChangeSchedule
    \/ ChangeTransactions
    \/ ChangeEntries
    \/ Mutate
    \/ RecordPending
    \/ UndoRecorded

ActionSpec == InitAction /\ [][NextAction]_vars

\* ------------------------------------------------------------ properties
Ids(seq) == {seq[i].id : i \in 1..Len(seq)}

\* The action of the history whose identity is id
ActionOf(id) == CHOOSE a \in Range(actions) : a.id = id

\* C1: undo() followed at once by redo() leaves the live accounts,
\* transactions and scheduled list (members, their attribute values, the
\* order of the scheduled list) exactly as they were before the undo().
C1_UndoRedoRestoresLive ==
    (result.op = "redo" /\ result.status = "ok" /\ prior # <<>>)
        => Live(Undoer) = prior[1]

\* C2: a record() made with k >= 0 of the n actions of the history undone
\* leaves the first n-k actions followed by the new action, the cursor on
\* the new action, can_redo() false and can_undo() true.
C2_RecordDiscardsRedoHistory ==
    [][next_id' # next_id =>
        LET n == Len(actions)
            k == Cardinality(undone)
        IN /\ k <= n
           /\ Len(actions') = n - k + 1
           /\ SubSeq(actions', 1, n - k) = SubSeq(actions, 1, n - k)
           /\ actions'[n - k + 1].id = next_id
           /\ PyPos(actions', index') = n - k + 1
           /\ ~can_redo(Undoer')
           /\ can_undo(Undoer')]_vars

\* record(3) has just discarded the undone action 2 and kept action 1
C2_Witness ==
    /\ result.op = "record"
    /\ Len(actions) = 2
    /\ actions[1].id = 1
    /\ actions[2].id = 3
    /\ 2 \in discarded

\* C3: an action discarded by a record() made while it was undone is never
\* in the history again, is never the action a redo() applied, and is never
\* the action undo_description() or redo_description() describes.
C3_DiscardedIsUnreachable ==
    /\ discarded \cap Ids(actions) = {}
    /\ (result.op = "redo" /\ result.status = "ok")
            => result.value \notin discarded
    /\ can_undo(Undoer) => CursorId(Undoer) \notin discarded
    /\ (can_redo(Undoer) /\ PyInRange(actions, index + 1))
            => actions[PyPos(actions, index + 1)].id \notin discarded

\* a redo() has applied an action after another one was discarded
C3_Witness ==
    /\ discarded # {}
    /\ result.op = "redo"
    /\ result.status = "ok"

\* C4: modified is false right after set_save_point(), whatever the number
\* of recorded actions and the number of them undone.
C4_UnmodifiedAfterSavePoint ==
    result.op = "set_save_point" => ~modified(Undoer)

\* C5: modified is false on a freshly constructed Undoer, and true right
\* after every record() of a new action, whatever the save point is.
C5_ModifiedAfterRecord ==
    /\ result.op = "init" => ~modified(Undoer)
    /\ result.op = "record" => modified(Undoer)

\* a record() made after a set_save_point() that saved an action
C5_Witness ==
    /\ result.op = "record"
    /\ since_save # <<>>
    /\ save_point # None
    /\ modified(Undoer)

\* C6: after set_save_point(), k >= 1 record() calls and then exactly k
\* undo() calls, modified is false.
C6_UnmodifiedBackAtSavePoint ==
    (since_save # <<>> /\ since_save[2] >= 1 /\ since_save[3] = since_save[2])
        => ~modified(Undoer)

\* C7: right after a record(), can_redo() is false, can_undo() is true and
\* undo_description() is the description of the action just recorded.
C7_AfterRecord ==
    result.op = "record" =>
        /\ ~can_redo(Undoer)
        /\ can_undo(Undoer)
        /\ undo_description(Undoer)
              = Return(Undoer, ActionOf(result.value).description)

\* two record() calls in a row, of actions with different descriptions
C7_Witness ==
    /\ result.op = "record"
    /\ undone = {}
    /\ discarded = {}
    /\ Len(actions) >= 2
    /\ actions[Len(actions)].description
          # actions[Len(actions) - 1].description

\* C8: can_undo() is true exactly when the history holds an action that is
\* not undone; the cursor then stands on such an action and undo() finds it.
C8_CanUndoIffActionToUndo ==
    /\ can_undo(Undoer) <=> (Ids(actions) \ undone # {})
    /\ can_undo(Undoer) =>
        /\ PyInRange(actions, index)
        /\ CursorId(Undoer) \notin undone
        /\ undo(Undoer).status \notin {"AssertionError", "IndexError"}

\* can_undo() is true with one action undone and one not
C8_Witness ==
    /\ can_undo(Undoer)
    /\ undone # {}
    /\ result.op = "undo"

\* C9: can_redo() is true only if the history holds at least one action and
\* the cursor is not on the last one, so that redo() and redo_description()
\* then refer to an action of the history and complete without error.
C9_CanRedoOnlyWithActionToRedo ==
    can_redo(Undoer) =>
        /\ Len(actions) >= 1
        /\ PyInRange(actions, index + 1)
        /\ redo(Undoer).status = "ok"
        /\ redo_description(Undoer).status = "ok"

\* The fields of the Undoer and the live collections
UndoerState ==
    <<actions, index, save_point, accounts, transactions, scheduled,
      account_state, transaction_state, schedule_state, undostep>>

\* C10: undo() called when can_undo() is false, and redo() called when
\* can_redo() is false, fail with an AssertionError, leave the history, the
\* cursor, the save point and the live collections as they were and do not
\* invalidate the transactions cache.
C10_FailedCallChangesNothing ==
    [][/\ (result'.op = "undo" /\ ~can_undo(Undoer)) =>
            /\ result'.status = "AssertionError"
            /\ UNCHANGED UndoerState
            /\ ~cache_cleared'
       /\ (result'.op = "redo" /\ ~can_redo(Undoer)) =>
            /\ result'.status = "AssertionError"
            /\ UNCHANGED UndoerState
            /\ ~cache_cleared']_vars

\* a redo() has failed on a document that holds a schedule
C10_Witness ==
    /\ result.op = "redo"
    /\ result.status = "AssertionError"
    /\ scheduled # <<>>
    /\ Len(actions) >= 1

\* The last n members of a list
LastN(list, n) == SubSeq(list, Len(list) - n + 1, Len(list))

\* C11: undo() of a recorded action restores every changed account and
\* transaction to the state it had before the operation, removes every
\* added one from the live collections and re-inserts every deleted one;
\* redo() re-inserts the added, removes the deleted and restores the
\* changed to their state after the operation.  After record() can_undo()
\* is true and can_redo() false; after undo() can_redo() is true; after the
\* redo() of the last action of the history can_redo() is false.
C11_UndoRedoEntities ==
    /\ result.op = "record" => can_undo(Undoer) /\ ~can_redo(Undoer)
    /\ (result.op = "undo" /\ result.status = "ok") =>
          LET a == ActionOf(result.value)
              pre == effect[a.id].pre
          IN /\ \A x \in a.changed_accounts :
                   x \in accounts /\ account_state[x] = pre.account_state[x]
             /\ \A t \in a.changed_transactions :
                   /\ t \in transactions
                   /\ transaction_state[t] = pre.transaction_state[t]
             /\ a.added_accounts \cap accounts = {}
             /\ a.added_transactions \cap transactions = {}
             /\ a.deleted_accounts \subseteq accounts
             /\ a.deleted_transactions \subseteq transactions
             /\ can_redo(Undoer)
    /\ (result.op = "redo" /\ result.status = "ok") =>
          LET a == ActionOf(result.value)
              post == effect[a.id].post
          IN /\ \A x \in a.changed_accounts :
                   x \in accounts /\ account_state[x] = post.account_state[x]
             /\ \A t \in a.changed_transactions :
                   /\ t \in transactions
                   /\ transaction_state[t] = post.transaction_state[t]
             /\ a.added_accounts \subseteq accounts
             /\ a.added_transactions \subseteq transactions
             /\ a.deleted_accounts \cap accounts = {}
             /\ a.deleted_transactions \cap transactions = {}
             /\ (a.id = actions[Len(actions)].id => ~can_redo(Undoer))

\* The only action of the history, which added an account, has been undone
\* and redone: the account is live again
C11_Witness ==
    /\ result.op = "redo" /\ result.status = "ok"
    /\ Len(actions) = 1
    /\ actions[1].added_accounts # {}
    /\ actions[1].added_accounts \subseteq accounts

\* C12: undo() appends every schedule of the action's deleted_schedules to
\* the scheduled list and removes every schedule of its added_schedules;
\* redo() appends the added and removes the deleted.  After undo() the set
\* of schedules in the list is the set before the operation, after redo()
\* the set after the operation.
C12_UndoRedoSchedules ==
    /\ (result.op = "undo" /\ result.status = "ok") =>
          LET a == ActionOf(result.value)
          IN /\ Len(a.deleted_schedules) <= Len(scheduled)
             /\ LastN(scheduled, Len(a.deleted_schedules))
                   = a.deleted_schedules
             /\ Range(a.added_schedules) \cap Range(scheduled) = {}
             /\ Range(scheduled) = effect[a.id].pre.scheduled
    /\ (result.op = "redo" /\ result.status = "ok") =>
          LET a == ActionOf(result.value)
          IN /\ Len(a.added_schedules) <= Len(scheduled)
             /\ LastN(scheduled, Len(a.added_schedules)) = a.added_schedules
             /\ Range(a.deleted_schedules) \cap Range(scheduled) = {}
             /\ Range(scheduled) = effect[a.id].post.scheduled

\* An action that added one schedule and deleted another has been undone
C12_Witness ==
    /\ result.op = "undo" /\ result.status = "ok"
    /\ ActionOf(result.value).added_schedules # <<>>
    /\ ActionOf(result.value).deleted_schedules # <<>>
    /\ Len(scheduled) = 1

\* The schedule a spawn is an occurrence of
owner(spawn) == CHOOSE s \in Schedules : contains_spawn(s, spawn)

\* C13: after every call change_transactions(T, S), for every spawn t of T,
\* changed_schedules contains the schedule that owns t.
C13_SpawnOwnerRegistered ==
    call.op = "change_transactions" =>
        \A t \in call.args[1] :
            is_spawn(t) => owner(t) \in pending.changed_schedules

\* C14: clear() empties the history and leaves the save point as it was;
\* when the save point is an action (not None), modified is true after
\* clear() and stays true through every record(), undo() and redo() that
\* follows, until set_save_point() is called again.
C14_ModifiedAfterClear ==
    /\ [][result'.op = "clear" =>
            actions' = <<>> /\ save_point' = save_point]_vars
    /\ [](save_lost = "clear" => modified(Undoer))

\* Since the clear() that dropped the saved action, actions were recorded,
\* one undone and redone: the save point is still that action
C14_Witness ==
    /\ save_lost = "clear"
    /\ save_point # None
    /\ result.op = "redo" /\ result.status = "ok"

\* C15: record(), undo() and redo() either perform all their effects (for
\* undo() and redo(): the entities and the scheduled list reversed, the
\* cache invalidated, the cursor moved by one) or fail and leave the live
\* collections, the history and the cursor as they were.
C15_CallsAreAtomic ==
    [][/\ result'.op = "record" =>
            /\ result'.status = "ok"
            /\ actions' # <<>> /\ index' = -1
            /\ actions'[Len(actions')].id = result'.value
            /\ result'.value \in DOMAIN undostep'
       /\ result'.op = "undo" =>
            \/ /\ result'.status = "ok"
               /\ cache_cleared' /\ index' = index - 1
            \/ /\ result'.status # "ok"
               /\ UNCHANGED UndoerState /\ ~cache_cleared'
       /\ result'.op = "redo" =>
            \/ /\ result'.status = "ok"
               /\ cache_cleared' /\ index' = index + 1
            \/ /\ result'.status # "ok"
               /\ UNCHANGED UndoerState /\ ~cache_cleared']_vars

\* No entity is in two of the added, changed and deleted sets of its
\* collection
Disjoint(a) ==
    /\ a.added_accounts \cap a.changed_accounts = {}
    /\ a.added_accounts \cap a.deleted_accounts = {}
    /\ a.changed_accounts \cap a.deleted_accounts = {}
    /\ a.added_transactions \cap a.changed_transactions = {}
    /\ a.added_transactions \cap a.deleted_transactions = {}
    /\ a.changed_transactions \cap a.deleted_transactions = {}
    /\ Range(a.added_schedules) \cap a.changed_schedules = {}
    /\ Range(a.added_schedules) \cap Range(a.deleted_schedules) = {}
    /\ a.changed_schedules \cap Range(a.deleted_schedules) = {}

\* C16 as stated: after any sequence of direct additions and calls of the
\* change_* methods, the added, changed and deleted sets of each collection
\* of the Action are pairwise disjoint.
C16_SetsDisjoint == Disjoint(pending)

\* C16: the added, changed and deleted sets of each collection of the
\* Action are pairwise disjoint after any sequence of direct additions and
\* calls of the change_* methods in which the caller has never added
\* directly an entity that was in another set of its collection and never
\* passed to a change_* method an entity of an added or deleted set, nor a
\* spawn along with its schedule while that schedule was in one.
C16_SetsDisjointIfCallerKeepsThem == caller_ok => Disjoint(pending)

\* A schedule was added, then the spawn of the other schedule registered
C16_Witness ==
    /\ caller_ok
    /\ call.op = "change_transactions"
    /\ pending.added_schedules # <<>>
    /\ pending.changed_schedules # {}

\* C17: registering with change_accounts or change_schedule an entity
\* already registered leaves the changed set what the first registration
\* made it, and the state undo() restores for an entity of a changed set is
\* the state the entity had when the Action first registered it.
C17_FirstBackupWins ==
    /\ (call.op = "change_accounts"
          /\ call.args[1] \subseteq call.before.changed_accounts) =>
            pending.changed_accounts = call.before.changed_accounts
    /\ (call.op = "change_schedule"
          /\ call.args[1] \in call.before.changed_schedules) =>
            pending.changed_schedules = call.before.changed_schedules
    /\ (result.op = "undo" /\ result.status = "ok") =>
          /\ \A a \in pending.changed_accounts :
                account_state[a] = first_state.accounts[a]
          /\ \A s \in pending.changed_schedules :
                schedule_state[s] = first_state.schedules[s]

\* C18: undo() reverses the action applied (recorded or redone) last among
\* those not undone, redo() re-applies the action undone last among those
\* not redone or discarded; so k undo() calls reverse the last k applied
\* actions from the latest to the earliest and k redo() calls after them
\* re-apply these from the earliest to the latest.  In the reference
\* history the applied actions are H[1..p], the latest last, and the undone
\* ones H[p+1..], the one undone last first.
C18_LastInFirstOut ==
    /\ (result.op = "undo" /\ result.status = "ok") =>
          /\ ref.p + 1 \in 1..Len(ref.H)
          /\ result.value = ref.H[ref.p + 1].id
    /\ (result.op = "redo" /\ result.status = "ok") =>
          /\ ref.p \in 1..Len(ref.H)
          /\ result.value = ref.H[ref.p].id

\* Three actions were recorded and all three are undone, the first last
C18_Witness ==
    /\ result.op = "undo" /\ result.status = "ok"
    /\ Len(ref.H) = 3 /\ ref.p = 0
    /\ result.value = 1

\* C19: the Undoer with its negative cursor shows what the reference
\* history (H, p) shows (record: H := H[0..p) + [a], p := |H|; undo:
\* p := p - 1; redo: p := p + 1; clear: H := [], p := 0), after every
\* sequence of record, undo, redo, clear and set_save_point: can_undo() is
\* p > 0, can_redo() is p < |H|, the descriptions are those of H[p] and
\* H[p+1], modified compares the save point with H[p], and the actions of
\* the history are those of H.
C19_CursorRefinesReference ==
    /\ can_undo(Undoer) = (ref.p > 0)
    /\ can_redo(Undoer) = (ref.p < Len(ref.H))
    /\ undo_description(Undoer) =
          Return(Undoer, IF ref.p > 0 THEN ref.H[ref.p].description
                         ELSE None)
    /\ redo_description(Undoer) =
          Return(Undoer, IF ref.p < Len(ref.H)
                         THEN ref.H[ref.p + 1].description ELSE None)
    /\ modified(Undoer) =
          (save_point # (IF ref.p > 0 THEN ref.H[ref.p].id ELSE None))
    /\ Len(actions) = Len(ref.H)
    /\ \A i \in 1..Len(actions) : actions[i].id = ref.H[i].id

\* What a call given the transactions T and the schedules S is to make of
\* the Action b: the regular transactions of T join changed_transactions,
\* the schedules of S owning a spawn of T join changed_schedules
WithChanged(b, T, S) ==
    [b EXCEPT
       !.changed_transactions = @ \cup (T \ Spawns),
       !.changed_schedules = @ \cup
           {s \in S : \E t \in T \cap Spawns : owner(t) = s}]

\* C20: change_transactions(T, S) adds to changed_transactions exactly the
\* members of T that are not spawns, adds to changed_schedules exactly the
\* schedules of S that contain a spawn of T, and leaves every other set of
\* the Action as it was; change_entries(E, S) does what
\* change_transactions({e.transaction : e in E}, S) does.
C20_ChangeTransactionsEffect ==
    /\ call.op = "change_transactions" =>
          pending = WithChanged(call.before, call.args[1], call.args[2])
    /\ call.op = "change_entries" =>
          pending = WithChanged(call.before,
                                {transaction(e) : e \in call.args[1]},
                                call.args[2])

\* change_entries was given an entry of a regular transaction and one of a
\* spawn, with the schedule of the spawn: both were registered
C20_Witness ==
    /\ call.op = "change_entries"
    /\ call.before.changed_transactions = {}
    /\ call.before.changed_schedules = {}
    /\ pending.changed_transactions # {}
    /\ pending.changed_schedules # {}
    /\ pending.changed_schedules # call.args[2]

\* The places of the call's effects that the statement named made
Places(statement) == {i \in 1..Len(effects) : effects[i] = statement}

\* The places of the call's effects that changed a live collection
LivePlaces ==
    Places("undostep.undo") \cup Places("undostep.redo")
        \cup Places("_do_adds") \cup Places("_do_deletes")

\* C21: an undo() or redo() that completes invalidates the transactions
\* cache exactly once, after the UndoStep was applied and the schedules
\* appended and removed, and before the cursor moves; nothing changes the
\* live collections after the invalidation.
C21_CacheInvalidatedOnceInOrder ==
    (result.op \in {"undo", "redo"} /\ result.status = "ok") =>
        /\ cache_cleared
        /\ Cardinality(Places("clear_cache")) = 1
        /\ Cardinality(Places("_index")) = 1
        /\ Cardinality(LivePlaces) = 3
        /\ \A c \in Places("clear_cache") :
              /\ \A i \in LivePlaces : i < c
              /\ \A i \in Places("_index") : c < i

\* An undo() that re-appended a schedule has completed
C21_Witness ==
    /\ result.op = "undo" /\ result.status = "ok"
    /\ ActionOf(result.value).deleted_schedules # <<>>
    /\ effects # <<>>

\* C22: undo() moves the cursor one action into the past, redo() one action
\* toward the present, and neither changes the history; the history grows
\* only by the action record() appends, and gets shorter only when record()
\* drops undone actions or when clear() empties it.
C22_CursorMovesHistoryStays ==
    [][/\ (result'.op = "undo" /\ result'.status = "ok") =>
            index' = index - 1
       /\ (result'.op = "redo" /\ result'.status = "ok") =>
            index' = index + 1
       /\ result'.op \in {"undo", "redo"} => actions' = actions
       /\ actions' # actions => result'.op \in {"record", "clear"}
       /\ result'.op = "record" =>
            \E m \in 0..Len(actions) :
                /\ Len(actions') = m + 1
                /\ SubSeq(actions', 1, m) = SubSeq(actions, 1, m)
                /\ actions'[m + 1].id = result'.value
                /\ m < Len(actions) => undone # {}
       /\ result'.op = "clear" => actions' = <<>>]_vars

\* The second of three actions has been redone: the cursor is on it
C22_Witness ==
    /\ result.op = "redo" /\ result.status = "ok"
    /\ Len(actions) = 3
    /\ index = -2

\* C23: set_save_point() sets the save point to the last action of the
\* history, or to None when the history is empty, wherever the cursor is,
\* and leaves the history, the cursor and the live collections as they
\* were.
C23_SavePointIsTip ==
    [][result'.op = "set_save_point" =>
        /\ save_point' = IF actions = <<>> THEN None
                         ELSE actions[Len(actions)].id
        /\ UNCHANGED <<actions, index, accounts, transactions, scheduled,
                       account_state, transaction_state, schedule_state,
                       undostep>>
        /\ ~cache_cleared']_vars

\* set_save_point() was called with the last of two actions undone: the
\* save point is that undone action
C23_Witness ==
    /\ result.op = "set_save_point"
    /\ Len(actions) = 2
    /\ index = -2
    /\ save_point = actions[2].id

\* How many times undo() can be called in a row from u before can_undo()
\* answers no
RECURSIVE Undoable(_, _)
Undoable(u, fuel) ==
    IF fuel = 0 \/ ~can_undo(u) \/ undo(u).status # "ok" THEN 0
    ELSE 1 + Undoable(undo(u).u, fuel - 1)

\* How many times redo() can be called in a row from u before can_redo()
\* answers no
RECURSIVE Redoable(_, _)
Redoable(u, fuel) ==
    IF fuel = 0 \/ ~can_redo(u) \/ redo(u).status # "ok" THEN 0
    ELSE 1 + Redoable(redo(u).u, fuel - 1)

\* C24: when clear() is never called, 1 <= -_index <= len(_actions) + 1;
\* the number of actions that can be undone is len(_actions) + _index + 1,
\* the number that can be redone is -_index - 1, and the two add up to
\* len(_actions).
C24_CursorInBounds ==
    /\ 1 <= -index
    /\ -index <= Len(actions) + 1
    /\ Undoable(Undoer, MaxActions + 2) = Len(actions) + index + 1
    /\ Redoable(Undoer, MaxActions + 2) = -index - 1
    /\ Cardinality(undone) = -index - 1
    /\ ref.p = Len(actions) + index + 1
    /\ Undoable(Undoer, MaxActions + 2) + Redoable(Undoer, MaxActions + 2)
         = Len(actions)

\* Two of three actions are undone: one can be undone, two can be redone
C24_Witness ==
    /\ Len(actions) = 3
    /\ index = -3
    /\ Undoable(Undoer, MaxActions + 2) = 1
    /\ Redoable(Undoer, MaxActions + 2) = 2

\* The Undoer's own state: history, cursor and save point
Own(u) == <<u.actions, u.index, u.save_point>>

\* What the five queries answer in u (a raised exception is an answer)
Answers(u) ==
    LET ud == undo_description(u)
        rd == redo_description(u)
    IN <<can_undo(u), can_redo(u), ud.status, ud.value, rd.status, rd.value,
         IF can_undo(u) /\ ~PyInRange(u.actions, u.index)
         THEN "IndexError" ELSE "ok",
         IF can_undo(u) /\ ~PyInRange(u.actions, u.index)
         THEN FALSE ELSE modified(u)>>

\* C25: on the Undoer's own state undo(); redo() and redo(); undo() are
\* identities: whenever can_undo() (resp. can_redo()) allows the first
\* call, the pair leaves history, cursor and save point as they were, and
\* the five queries answer as before.
C25_UndoRedoIdentity ==
    /\ can_undo(Undoer) =>
          LET after == redo(undo(Undoer).u).u
          IN Own(after) = Own(Undoer) /\ Answers(after) = Answers(Undoer)
    /\ can_redo(Undoer) =>
          LET after == undo(redo(Undoer).u).u
          IN Own(after) = Own(Undoer) /\ Answers(after) = Answers(Undoer)

\* A state in the middle of a history of three, saved at the tip: both
\* pairs are allowed, both calls of each pair succeed and move the cursor
C25_Witness ==
    /\ Len(actions) = 3
    /\ index = -2
    /\ save_point = actions[3].id
    /\ undo(Undoer).status = "ok"
    /\ undo(Undoer).u.index = -3
    /\ redo(undo(Undoer).u).status = "ok"
    /\ redo(Undoer).status = "ok"
    /\ redo(Undoer).u.index = -1
    /\ undo(redo(Undoer).u).status = "ok"

\* The schedules left by the first k actions of the history, applied in
\* order to the empty list the document starts with
RECURSIVE NetSchedules(_, _)
NetSchedules(H, k) ==
    IF k = 0 THEN {}
    ELSE (NetSchedules(H, k - 1) \cup Range(H[k].added_schedules))
             \ Range(H[k].deleted_schedules)

\* C26: under the protocol (a schedule is appended exactly when recorded
\* as added, removed exactly when recorded as deleted, record() follows at
\* once, no schedule is in both sets), in every state reached by
\* record/undo/redo no removal fails, no schedule is in the list twice,
\* and the schedules in the list are the net effect of the actions at or
\* before the cursor.
C26_ScheduleListConsistent ==
    /\ result.status # "ValueError"
    /\ can_undo(Undoer) => undo(Undoer).status = "ok"
    /\ can_redo(Undoer) => redo(Undoer).status = "ok"
    /\ Cardinality(Range(scheduled)) = Len(scheduled)
    /\ Range(scheduled) = NetSchedules(actions, Len(actions) + index + 1)

\* An action that deleted one schedule and added another has just been
\* undone: the removal of the added one succeeded, the deleted one is back
C26_Witness ==
    /\ result.op = "undo"
    /\ result.status = "ok"
    /\ LET action == actions[PyPos(actions, index + 1)]
       IN /\ action.added_schedules # <<>>
          /\ action.deleted_schedules # <<>>
          /\ Range(action.deleted_schedules) \subseteq Range(scheduled)

\* The description of the action of the history whose id is given
DescriptionOf(H, id) ==
    LET i == CHOOSE i \in 1..Len(H) : H[i].id = id IN H[i].description

\* C27: undo_description() returns the description of the action the next
\* undo() would reverse and redo_description() that of the action the next
\* redo() would re-apply; each returns None exactly when can_undo() (resp.
\* can_redo()) is false; right after an undo(), redo_description() is what
\* undo_description() returned just before it.
C27_DescriptionsNameNextAction ==
    /\ [](/\ undo_description(Undoer).status = "ok"
          /\ redo_description(Undoer).status = "ok"
          /\ (undo_description(Undoer).value = None) <=> ~can_undo(Undoer)
          /\ (redo_description(Undoer).value = None) <=> ~can_redo(Undoer)
          /\ can_undo(Undoer) =>
                /\ undo(Undoer).status = "ok"
                /\ undo_description(Undoer).value
                     = DescriptionOf(actions, undo(Undoer).value)
          /\ can_redo(Undoer) =>
                /\ redo(Undoer).status = "ok"
                /\ redo_description(Undoer).value
                     = DescriptionOf(actions, redo(Undoer).value))
    /\ [][(result'.op = "undo" /\ result'.status = "ok") =>
            redo_description(Undoer)' = Return(Undoer', undo_description(Undoer).value)]_vars

\* C28: only set_save_point() changes the save point: record(), undo(),
\* redo() and clear() leave _save_point as it was, also when record()
\* truncates the history and discards the action the save point refers to.
C28_OnlySetSavePointMovesSavePoint ==
    [][/\ result'.op \in {"record", "undo", "redo", "clear"} =>
            save_point' = save_point
       /\ save_point' # save_point => result'.op = "set_save_point"]_vars

\* record() has just discarded the saved action: the save point still
\* names it and no action of the history has that id
C28_Witness ==
    /\ result.op = "record"
    /\ save_lost = "record"
    /\ save_point # None
    /\ save_point \in discarded
    /\ \A i \in 1..Len(actions) : actions[i].id # save_point

\* C29: after a set_save_point() taken with nothing undone, along any
\* sequence of undo() and redo() calls (no record, no clear), modified is
\* false exactly where the cursor is back at the position it had when the
\* save point was taken, however it got there.
C29_ModifiedFollowsCursor ==
    saved_at # <<>> => (modified(Undoer) = (saved_at[1] # 0))

\* Saved at the tip of three actions, the cursor went two back and came
\* back by two redo() calls: modified is false again
C29_Witness ==
    /\ saved_at = <<0>>
    /\ result.op = "redo"
    /\ result.status = "ok"
    /\ Len(actions) = 3
    /\ index = -1
    /\ ~modified(Undoer)

\* C30: once record() has truncated the saved action out of the history,
\* modified is true in every later state, whatever records, undos and
\* redos follow, until set_save_point() is called again; undoing
\* everything does not make it false.
C30_ModifiedAfterTruncation ==
    save_lost = "record" => modified(Undoer)

\* The saved action was truncated and everything has then been undone
C30_Witness ==
    /\ save_lost = "record"
    /\ result.op = "undo"
    /\ result.status = "ok"
    /\ ~can_undo(Undoer)
    /\ Len(actions) >= 1
    /\ modified(Undoer)

\* C31: from any state reached by record/undo/redo/set_save_point,
\* calling undo() while can_undo() holds stops after exactly as many calls
\* as there are applied actions, with can_undo() false and every recorded
\* action redoable; calling redo() while can_redo() holds stops after
\* exactly as many calls as there are undone actions, with can_redo()
\* false and the cursor on the last action.
C31_RepeatedUndoTerminates ==
    /\ (loop.pc = "undoing") ~> (loop.pc = "undone")
    /\ (loop.pc = "redoing") ~> (loop.pc = "redone")
    /\ [](loop.pc # "raised")
    /\ [](loop.pc = "undone" =>
            /\ loop.calls = loop.applied
            /\ ~can_undo(Undoer)
            /\ Redoable(Undoer, MaxActions + 2) = Len(actions)
            /\ undone = {actions[i].id : i \in 1..Len(actions)})
    /\ [](loop.pc = "redone" =>
            /\ loop.calls = loop.undone
            /\ ~can_redo(Undoer)
            /\ index = -1
            /\ undone = {})

\* A loop of undo() calls entered with one of three actions undone has
\* ended after two calls
C31_Witness ==
    /\ loop.pc = "undone"
    /\ loop.applied = 2
    /\ loop.undone = 1
    /\ loop.calls = 2
    /\ Len(actions) = 3
====
